---------------------------- MODULE Spec2Model ----------------------------
(***************************************************************************)
(* A model of the btc-launchpad frontend: the numeric helpers              *)
(* (calculateSlippage, calculatePriceImpact), the LaunchpadClient wrapper  *)
(* around the vendor SDK, the token launch form and the trading panel.     *)
(*                                                                         *)
(* JavaScript has two kinds of numbers here.  bigint is exact and          *)
(* unbounded; number is an IEEE-754 double.  Both are modelled exactly:    *)
(* a natural number of any size is the set of the positions of its 1 bits  *)
(* (a "BigNat"), and a double is a sign, a BigNat mantissa and a binary    *)
(* exponent, rounded to 53 significant bits, ties to even, after every     *)
(* operation, as the hardware does.                                        *)
(***************************************************************************)
EXTENDS Integers, Sequences, FiniteSets, TLC

(***************************************************************************)
(* Natural numbers of unbounded size: the set of positions of the 1 bits.  *)
(***************************************************************************)
RECURSIVE Pow2(_)
Pow2(n) == IF n = 0 THEN 1 ELSE 2 * Pow2(n - 1)

SetMax(S) == CHOOSE x \in S : \A y \in S : y <= x

SetMin(S) == CHOOSE x \in S : \A y \in S : x <= y

IntMax(a, b) == IF a >= b THEN a ELSE b

IntMin(a, b) == IF a <= b THEN a ELSE b

BitLen(A) == IF A = {} THEN 0 ELSE SetMax(A) + 1

\* n in 0 .. 2^31 - 1
FromInt(n) == {i \in 0..30 : (n \div Pow2(i)) % 2 = 1}

RECURSIVE ToInt(_)
\* A below 2^31
ToInt(A) == IF A = {} THEN 0
            ELSE LET x == CHOOSE y \in A : TRUE IN Pow2(x) + ToInt(A \ {x})

ShiftLeft(A, k) == {i + k : i \in A}

ShiftRight(A, k) == {i - k : i \in {j \in A : j >= k}}

LowBits(A, k) == {i \in A : i < k}

\* F applied to the values of its arguments (an argument is evaluated once)
Eval1(F(_), a0) == CHOOSE r \in {F(a) : a \in {a0}} : TRUE

Eval2(F(_, _), a0, b0) == CHOOSE r \in {F(a, b) : a \in {a0}, b \in {b0}} : TRUE

Eval3(F(_, _, _), a0, b0, c0) ==
    CHOOSE r \in {F(a, b, c) : a \in {a0}, b \in {b0}, c \in {c0}} : TRUE

AddBits(A, B) ==
    LET gen == A \cap B
        CarryIn(k) == \E j \in gen : j < k /\ \A i \in (j + 1)..(k - 1) : i \in A \/ i \in B
    IN  {k \in 0..IntMax(BitLen(A), BitLen(B)) : ((k \in A) # (k \in B)) # CarryIn(k)}

BigAdd(A, B) == Eval2(AddBits, A, B)

\* A - B for B <= A
SubBits(A, B) ==
    LET gen == B \ A
        BorrowIn(k) == \E j \in gen : j < k /\ \A i \in (j + 1)..(k - 1) : i \notin A \/ i \in B
    IN  {k \in 0..BitLen(A) : ((k \in A) # (k \in B)) # BorrowIn(k)}

BigSub(A, B) == Eval2(SubBits, A, B)

RECURSIVE MulBits(_, _)
MulBits(A, B) ==
    IF A = {} \/ B = {} THEN {}
    ELSE IF SetMin(B) = SetMax(B) THEN ShiftLeft(A, SetMax(B))
    ELSE LET mid == (SetMin(B) + SetMax(B) + 1) \div 2
         IN  BigAdd(MulBits(A, {i \in B : i < mid}), MulBits(A, {i \in B : i >= mid}))

BigMul(A, B) == Eval2(MulBits, A, B)

BigLess(A, B) ==
    /\ A # B
    /\ SetMax((A \ B) \cup (B \ A)) \in B

BigLeq(A, B) == A = B \/ BigLess(A, B)

RECURSIVE DivRange(_, _, _, _, _)
\* long division of A by D over the bits hi down to lo of A, continuing from the
\* remainder r of the bits above hi: the quotient bits hi..lo and the remainder
DivRange(A, D, hi, lo, r) ==
    IF hi = lo
    THEN LET r2 == ShiftLeft(r, 1) \cup (IF hi \in A THEN {0} ELSE {})
         IN  IF BigLeq(D, r2) THEN [q |-> {hi}, r |-> SubBits(r2, D)]
                              ELSE [q |-> {}, r |-> r2]
    ELSE LET mid == (hi + lo + 1) \div 2
             Low(top) ==
                 LET Join(bottom) == [q |-> top.q \cup bottom.q, r |-> bottom.r]
                 IN  Eval1(Join, DivRange(A, D, mid - 1, lo, top.r))
         IN  Eval1(Low, DivRange(A, D, hi, mid, r))

\* quotient and remainder of A by D, D # 0
DivBits(A, D) ==
    IF A = {} THEN [q |-> {}, r |-> {}] ELSE DivRange(A, D, BitLen(A) - 1, 0, {})

BigDivMod(A, D) == Eval2(DivBits, A, D)

(***************************************************************************)
(* bigint: a sign and a magnitude.  Zero has sign 1.                       *)
(***************************************************************************)
BigIntOf(s, A) == [s |-> IF A = {} THEN 1 ELSE s, mag |-> A]

\* x - y for bigints
BigIntSubOf(x, y) ==
    IF x.s = y.s
    THEN IF BigLeq(y.mag, x.mag) THEN BigIntOf(x.s, BigSub(x.mag, y.mag))
                                 ELSE BigIntOf(-x.s, BigSub(y.mag, x.mag))
    ELSE BigIntOf(x.s, BigAdd(x.mag, y.mag))

BigIntSub(x, y) == Eval2(BigIntSubOf, x, y)

(***************************************************************************)
(* IEEE-754 doubles.  A finite double is s * m * 2^e with m < 2^53, kept   *)
(* with m odd (or m = 0, e = 0) so that equal values are equal records.    *)
(* The exponent range is not modelled: every value the model computes is   *)
(* far inside it.                                                          *)
(***************************************************************************)
MantissaBits == 53

NaN == [k |-> "nan", s |-> 1, m |-> {}, e |-> 0]

Inf(s) == [k |-> "inf", s |-> s, m |-> {}, e |-> 0]

Zero(s) == [k |-> "fin", s |-> s, m |-> {}, e |-> 0]

Fin(s, M, e) ==
    IF M = {} THEN Zero(s)
    ELSE LET z == SetMin(M) IN [k |-> "fin", s |-> s, m |-> ShiftRight(M, z), e |-> e + z]

\* s * N * 2^e rounded to the nearest double, ties to even
RoundBits(s, N, e) ==
    LET n == BitLen(N)
    IN  IF n <= MantissaBits THEN Fin(s, N, e)
        ELSE LET k    == n - MantissaBits
                 q    == ShiftRight(N, k)
                 half == (k - 1) \in N
                 rest == LowBits(N, k - 1) # {}
                 up   == half /\ (rest \/ 0 \in q)
             IN  Fin(s, IF up THEN BigAdd(q, {0}) ELSE q, e + k)

RoundNearestEven(s, N, e) == Eval3(RoundBits, s, N, e)

IsZero(x) == x.k = "fin" /\ x.m = {}

\* Number(b) for a bigint b
Number(b) == RoundNearestEven(b.s, b.mag, 0)

FMulOf(x, y) ==
    IF x.k = "nan" \/ y.k = "nan" THEN NaN
    ELSE IF x.k = "inf" \/ y.k = "inf"
         THEN IF IsZero(x) \/ IsZero(y) THEN NaN ELSE Inf(x.s * y.s)
         ELSE RoundNearestEven(x.s * y.s, BigMul(x.m, y.m), x.e + y.e)

FMul(x, y) == Eval2(FMulOf, x, y)

FDivOf(x, y) ==
    IF x.k = "nan" \/ y.k = "nan" THEN NaN
    ELSE IF x.k = "inf" THEN (IF y.k = "inf" THEN NaN ELSE Inf(x.s * y.s))
    ELSE IF y.k = "inf" THEN Zero(x.s * y.s)
    ELSE IF IsZero(y) THEN (IF IsZero(x) THEN NaN ELSE Inf(x.s * y.s))
    ELSE IF IsZero(x) THEN Zero(x.s * y.s)
    ELSE LET sh == MantissaBits + 3 + BitLen(y.m)
             d  == BigDivMod(ShiftLeft(x.m, sh), y.m)
             \* the remainder as a sticky bit below the quotient
             N  == ShiftLeft(d.q, 1) \cup (IF d.r = {} THEN {} ELSE {0})
         IN  RoundNearestEven(x.s * y.s, N, x.e - y.e - sh - 1)

FDiv(x, y) == Eval2(FDivOf, x, y)

FNeg(x) == IF x.k = "nan" THEN NaN ELSE [x EXCEPT !.s = -x.s]

FAddOf(x, y) ==
    IF x.k = "nan" \/ y.k = "nan" THEN NaN
    ELSE IF x.k = "inf" THEN (IF y.k = "inf" /\ y.s # x.s THEN NaN ELSE x)
    ELSE IF y.k = "inf" THEN y
    ELSE IF IsZero(x) /\ IsZero(y) THEN Zero(IF x.s = -1 /\ y.s = -1 THEN -1 ELSE 1)
    ELSE LET em == IntMin(x.e, y.e)
             X  == ShiftLeft(x.m, x.e - em)
             Y  == ShiftLeft(y.m, y.e - em)
         IN  IF x.s = y.s THEN RoundNearestEven(x.s, BigAdd(X, Y), em)
             ELSE IF X = Y THEN Zero(1)
             ELSE IF BigLess(Y, X) THEN RoundNearestEven(x.s, BigSub(X, Y), em)
             ELSE RoundNearestEven(y.s, BigSub(Y, X), em)

FAdd(x, y) == Eval2(FAddOf, x, y)

FSub(x, y) == FAdd(x, FNeg(y))

\* Math.abs
FAbs(x) == IF x.k = "nan" THEN NaN ELSE [x EXCEPT !.s = 1]

\* BigInt(Math.floor(x)) for a finite double x
FloorOf(x) ==
    IF x.e >= 0 THEN BigIntOf(x.s, ShiftLeft(x.m, x.e))
    ELSE LET t    == ShiftRight(x.m, -x.e)
             frac == LowBits(x.m, -x.e) # {}
         IN  IF x.s = 1 \/ ~frac THEN BigIntOf(x.s, t)
             ELSE BigIntOf(-1, BigAdd(t, {0}))

FloorToBigInt(x) == Eval1(FloorOf, x)

\* the double of a small non-negative integer literal
FInt(n) == Fin(1, FromInt(n), 0)

(***************************************************************************)
(* The numeric helpers of the formatting module.                           *)
(***************************************************************************)
BpsDenominator == 10000

calculateSlippage(amount, slippageBps) ==
    LET slippagePercent == FDiv(FInt(slippageBps), FInt(BpsDenominator))
        slippageAmount  == FMul(Number(amount), slippagePercent)
    IN  BigIntSub(amount, FloorToBigInt(slippageAmount))

calculatePriceImpact(amountIn, amountOut, reserveIn, reserveOut) ==
    LET expectedOut == FDiv(FMul(Number(amountIn), Number(reserveOut)), Number(reserveIn))
        actualOut   == Number(amountOut)
        impact      == FMul(FDiv(FSub(expectedOut, actualOut), expectedOut), FInt(100))
    IN  FAbs(impact)

(***************************************************************************)
(* Decimal strings: a sequence of the characters "0" .. "9", with a        *)
(* leading "-" for a negative number.                                      *)
(***************************************************************************)
DigitChars == <<"0", "1", "2", "3", "4", "5", "6", "7", "8", "9">>

DigitOf(c) == (CHOOSE i \in 1..10 : DigitChars[i] = c) - 1

Ten == FromInt(10)

RECURSIVE BigPow10(_)
\* 10^k
BigPow10(k) ==
    IF k = 0 THEN {0}
    ELSE IF k = 1 THEN Ten
    ELSE BigMul(BigPow10(k \div 2), BigPow10(k - k \div 2))

RECURSIVE DigitsOf(_, _)
\* the n decimal digits of A, for A < 10^n, n >= 1
DigitsOf(A, n) ==
    IF n = 1 THEN <<DigitChars[ToInt(A) + 1]>>
    ELSE LET Split(d) == DigitsOf(d.q, n - n \div 2) \o DigitsOf(d.r, n \div 2)
         IN  Eval1(Split, BigDivMod(A, BigPow10(n \div 2)))

\* str without its leading zeros, the last digit kept
StripZeros(str) ==
    LET first == CHOOSE i \in 1..Len(str) :
                     /\ i = Len(str) \/ str[i] # "0"
                     /\ \A j \in 1..(i - 1) : str[j] = "0"
    IN  SubSeq(str, first, Len(str))

\* BigInt.prototype.toString()
ToDecimalString(b) ==
    (IF b.s = -1 THEN <<"-">> ELSE <<>>)
        \o StripZeros(DigitsOf(b.mag, (BitLen(b.mag) * 31) \div 100 + 1))

RECURSIVE ParseDigits(_)
\* the number a non-empty string of digits denotes
ParseDigits(str) ==
    IF Len(str) = 1 THEN FromInt(DigitOf(str[1]))
    ELSE LET half == Len(str) \div 2
         IN  BigAdd(BigMul(ParseDigits(SubSeq(str, 1, Len(str) - half)), BigPow10(half)),
                    ParseDigits(SubSeq(str, Len(str) - half + 1, Len(str))))

\* BigInt(str) for a well-formed decimal string
ParseBigInt(str) ==
    IF Head(str) = "-" THEN BigIntOf(-1, ParseDigits(Tail(str)))
    ELSE BigIntOf(1, ParseDigits(str))

Big(n) == BigIntOf(1, FromInt(n))

(***************************************************************************)
(* LaunchpadClient: the wrapper around the vendor SDK.  The vendor SDK is  *)
(* outside the repository: each vendor call either returns or throws, and  *)
(* which of the two is the environment's choice.                           *)
(***************************************************************************)
NotInitializedMessage == <<"Client not initialized - call initialize() first">>

DefaultSlippageBps == 100

BITCOIN_PUBLIC_KEY == "020202020202020202020202020202020202020202020202020202020202020202"

\* null
Null == [null |-> TRUE]

\* what a promise settles to
Resolved(v) == [kind |-> "resolved", value |-> v]

Rejected(msg) == [kind |-> "rejected", error |-> msg]

\* a value thrown by the vendor: an Error with a message (a sequence of phrases),
\* or something that is no Error
Thrown(isError, message) == [isError |-> isError, message |-> message, nullish |-> FALSE]

\* a promise rejected with no reason, or throw null: catch (error) binds
\* undefined or null
ThrownNullish == [isError |-> FALSE, message |-> <<>>, nullish |-> TRUE]

\* what reading error.message of undefined throws
TypeErrorMessage == <<"Cannot read properties of undefined (reading 'message')">>

WalletNotInitializedMessage == <<"Wallet not initialized - call initialize() first">>

\* message.includes(phrase)
Includes(message, phrase) == \E i \in 1..Len(message) : message[i] = phrase

\* error instanceof Error ? error.message : 'Unknown error'
ErrorMessage(t) == IF t.isError THEN t.message ELSE <<"Unknown error">>

Failure(msg) == [success |-> FALSE, error |-> msg]

\* one call of the vendor SDK: what was called, with what, and what came back
\* (Throws when it threw or rejected)
Throws == [throws |-> TRUE]

\* a value of the vendor's that is only passed on
Returns(name) == [returned |-> name]

VendorCall(fn, args, ret) == [fn |-> fn, args |-> args, ret |-> ret]

\* FlashnetClient.calculateVirtualReserves: vendor-defined.  Its value is kept as
\* the term naming its arguments.
VendorReserves(args) == [reservesOf |-> args]

\* x.toString() of one bigint field of the vendor's reserves
ReserveString(reserves, field) == [str |-> field, of |-> reserves]

\* (a variant with the two amounts in each other's place)
ReservesArgsExchanged(initialSupply, graduationThresholdPct, targetRaise) ==
    [initialTokenSupply     |-> ToDecimalString(targetRaise),
     graduationThresholdPct |-> graduationThresholdPct,
     targetRaise            |-> ToDecimalString(initialSupply)]

ReservesArgs(initialSupply, graduationThresholdPct, targetRaise) ==
    [initialTokenSupply     |-> ToDecimalString(initialSupply),
     graduationThresholdPct |-> graduationThresholdPct,
     targetRaise            |-> ToDecimalString(targetRaise)]

\* LaunchpadClient.calculateVirtualReserves: the vendor's value or the vendor's throw
calculateVirtualReserves(args, vendorThrows, thrown) ==
    [vendorCalls |-> <<VendorCall("calculateVirtualReserves", args,
                                  IF vendorThrows THEN Throws ELSE VendorReserves(args))>>,
     outcome     |-> IF vendorThrows THEN [kind |-> "throw", error |-> thrown]
                     ELSE [kind |-> "return", value |-> VendorReserves(args)]]

\* what launchToken resolves to
launchTokenResult(reservesThrow, poolThrows, thrown) ==
    IF reservesThrow \/ poolThrows
    THEN Resolved(Failure(ErrorMessage(thrown)))
    ELSE Resolved([success |-> TRUE, pool |-> "pool"])

\* (a variant that goes on to create the pool after a failed derivation)
launchTokenPastFailure(params, reservesThrow, poolThrows, thrown) ==
    LET args     == ReservesArgs(params.initialSupply, params.graduationThresholdPct,
                                 params.targetRaise)
        calcCall == VendorCall("calculateVirtualReserves", args,
                               IF reservesThrow THEN Throws ELSE VendorReserves(args))
        poolCall == VendorCall("createSingleSidedPool",
                               [assetAInitialReserve |-> ToDecimalString(params.initialSupply)],
                               IF poolThrows THEN Throws ELSE Returns("pool"))
    IN  [vendorCalls |-> <<calcCall, poolCall>>,
         outcome     |-> launchTokenResult(reservesThrow, poolThrows, thrown)]

\* launchToken with an initialised client: the vendor calls made and the result
launchToken(params, reservesThrow, poolThrows, thrown) ==
    LET args      == ReservesArgs(params.initialSupply, params.graduationThresholdPct,
                                  params.targetRaise)
        reserves  == VendorReserves(args)
        calcCall  == VendorCall("calculateVirtualReserves", args,
                                IF reservesThrow THEN Throws ELSE reserves)
        poolArgs  ==           [assetAAddress        |-> "new_token_<Date.now()>",
                                assetBAddress        |-> BITCOIN_PUBLIC_KEY,
                                assetAInitialReserve |-> ToDecimalString(params.initialSupply),
                                virtualReserveA      |-> ReserveString(reserves, "virtualReserveA"),
                                virtualReserveB      |-> ReserveString(reserves, "virtualReserveB"),
                                threshold            |-> ReserveString(reserves, "threshold"),
                                lpFeeRateBps         |-> params.lpFeeRateBps,
                                totalHostFeeRateBps  |-> params.totalHostFeeRateBps]
        poolCall  == VendorCall("createSingleSidedPool", poolArgs,
                                IF poolThrows THEN Throws ELSE Returns("pool"))
    IN  [vendorCalls |-> IF reservesThrow THEN <<calcCall>> ELSE <<calcCall, poolCall>>,
         outcome     |-> launchTokenResult(reservesThrow, poolThrows, thrown)]

\* params.maxSlippageBps || 100
slippageTolerance(maxSlippageBps) ==
    IF maxSlippageBps = 0 THEN DefaultSlippageBps ELSE maxSlippageBps

\* (BigInt(amountOut) * BigInt(10000 - slippageTolerance)) / BigInt(10000)
minAmountOut(amountOutString, tolerance) ==
    LET amountOut  == ParseBigInt(amountOutString)
        multiplier == FromInt(BpsDenominator - tolerance)
    IN  BigIntOf(amountOut.s, BigDivMod(BigMul(amountOut.mag, multiplier),
                                        FromInt(BpsDenominator)).q)

SimulateArgs(params) ==
    [poolId          |-> params.poolId,
     assetInAddress  |-> params.assetIn,
     assetOutAddress |-> params.assetOut,
     amountIn        |-> ToDecimalString(params.amountIn)]

\* the catch block of executeSwap
SwapFailure(t) ==
    IF t.isError /\ Includes(t.message, "Insufficient balance")
    THEN Failure(<<"Not enough funds to execute swap">>)
    ELSE IF t.isError /\ Includes(t.message, "Slippage exceeded")
    THEN Failure(<<"Price moved too much during execution">>)
    ELSE IF t.isError /\ Includes(t.message, "Pool inactive")
    THEN Failure(<<"Pool is currently inactive">>)
    ELSE Failure(ErrorMessage(t))

\* what executeSwap settles to: its catch block reads error.message before
\* anything else, which throws in turn when error is undefined or null
executeSwapResult(simThrows, execThrows, thrown) ==
    IF simThrows \/ execThrows
    THEN IF thrown.nullish
         THEN Rejected(TypeErrorMessage)
         ELSE Resolved(SwapFailure(thrown))
    ELSE Resolved([success |-> TRUE, result |-> "swapped"])

\* (a variant that sends the caller's params.minAmountOut)
executeSwapWithCallerMinimum(params, simThrows, amountOutString, execThrows, thrown) ==
    LET simCall  == VendorCall("simulateSwap", SimulateArgs(params),
                               IF simThrows THEN Throws ELSE [amountOut |-> amountOutString])
        execArgs ==           [poolId          |-> params.poolId,
                               assetInAddress  |-> params.assetIn,
                               assetOutAddress |-> params.assetOut,
                               amountIn        |-> ToDecimalString(params.amountIn),
                               minAmountOut    |-> ToDecimalString(params.minAmountOut),
                               maxSlippageBps  |-> slippageTolerance(params.maxSlippageBps)]
        execCall == VendorCall("executeSwap", execArgs,
                               IF execThrows THEN Throws ELSE Returns("swapped"))
    IN  [vendorCalls |-> IF simThrows THEN <<simCall>> ELSE <<simCall, execCall>>,
         outcome     |-> executeSwapResult(simThrows, execThrows, thrown),
         thrown      |-> IF simThrows \/ execThrows THEN thrown ELSE Null]

\* executeSwap with an initialised client: sim is the vendor's simulation (its
\* amountOut string) or "throws"; the vendor calls made, the result, and for
\* the record what the vendor threw
executeSwap(params, simThrows, amountOutString, execThrows, thrown) ==
    LET simCall  == VendorCall("simulateSwap", SimulateArgs(params),
                               IF simThrows THEN Throws ELSE [amountOut |-> amountOutString])
        tol      == slippageTolerance(params.maxSlippageBps)
        execArgs ==           [poolId          |-> params.poolId,
                               assetInAddress  |-> params.assetIn,
                               assetOutAddress |-> params.assetOut,
                               amountIn        |-> ToDecimalString(params.amountIn),
                               minAmountOut    |-> ToDecimalString(minAmountOut(amountOutString, tol)),
                               maxSlippageBps  |-> slippageTolerance(params.maxSlippageBps)]
        execCall == VendorCall("executeSwap", execArgs,
                               IF execThrows THEN Throws ELSE Returns("swapped"))
    IN  [vendorCalls |-> IF simThrows THEN <<simCall>> ELSE <<simCall, execCall>>,
         outcome     |-> executeSwapResult(simThrows, execThrows, thrown),
         thrown      |-> IF simThrows \/ execThrows THEN thrown ELSE Null]

\* what getSwapQuote resolves to
getSwapQuoteResult(params, simThrows, amountOutString) ==
    IF simThrows
    THEN Resolved(Null)
    ELSE Resolved([amountOut |-> ParseBigInt(amountOutString),
                   lpFee     |-> Big(0),
                   hostFee   |-> Big(0),
                   route     |-> <<params.assetIn, params.assetOut>>])

\* getSwapQuote with an initialised client
getSwapQuote(params, simThrows, amountOutString) ==
    LET simCall == VendorCall("simulateSwap", SimulateArgs(params),
                              IF simThrows THEN Throws ELSE [amountOut |-> amountOutString])
    IN  [vendorCalls |-> <<simCall>>,
         outcome     |-> getSwapQuoteResult(params, simThrows, amountOutString)]

\* getPool with an initialised client
getPool(poolId, vendorThrows) ==
    [vendorCalls |-> <<VendorCall("getPool", poolId,
                                  IF vendorThrows THEN Throws ELSE Returns("pool"))>>,
     outcome     |-> IF vendorThrows THEN Resolved(Null)
                     ELSE Resolved([pool |-> poolId])]

\* listPools with an initialised client; filters || {}
\* (pools: the array in the vendor's answer)
listPools(filters, vendorThrows, pools) ==
    [vendorCalls |-> <<VendorCall("listPools",
                                  IF filters = "undefined" THEN "{}" ELSE filters,
                                  IF vendorThrows THEN Throws ELSE [pools |-> pools])>>,
     outcome     |-> IF vendorThrows THEN Resolved([pools |-> <<>>])
                     ELSE Resolved([pools |-> pools])]

\* getLpPosition with an initialised client
getLpPosition(poolId, vendorThrows) ==
    [vendorCalls |-> <<VendorCall("getLpPosition", poolId,
                                  IF vendorThrows THEN Throws ELSE Returns("position"))>>,
     outcome     |-> IF vendorThrows THEN Resolved(Null)
                     ELSE Resolved([position |-> poolId])]

\* addLiquidity with an initialised client
addLiquidity(params, vendorThrows, thrown) ==
    [vendorCalls |-> <<VendorCall("addLiquidity", params,
                                  IF vendorThrows THEN Throws ELSE Returns("added"))>>,
     outcome     |-> IF vendorThrows THEN Resolved(Failure(ErrorMessage(thrown)))
                     ELSE Resolved([success |-> TRUE, result |-> "added"])]

\* createInvoice with an initialised wallet; memo || "Launchpad payment"
createInvoice(amountSats, memo, vendorThrows, thrown) ==
    [vendorCalls |-> <<VendorCall("createLightningInvoice",
                                  [amountSats |-> amountSats,
                                   memo       |-> IF memo = "" THEN "Launchpad payment"
                                                  ELSE memo],
                                  IF vendorThrows THEN Throws ELSE Returns("invoice"))>>,
     outcome     |-> IF vendorThrows THEN Resolved(Failure(ErrorMessage(thrown)))
                     ELSE Resolved([success |-> TRUE, invoice |-> "invoice"])]

(***************************************************************************)
(* State.                                                                  *)
(***************************************************************************)
VARIABLES
    client,       \* LaunchpadClient.client: "null" or "FlashnetClient"
    wallet,       \* LaunchpadClient.wallet: "null" or "SparkWallet"
    initPc,       \* where the initialize() in flight is: "idle", "wallet", "client"
    initSucceeded,\* history: some initialize() has returned {success: true}
    initResult,   \* history: what the last initialize() to settle settled to
    call,         \* the call of a helper or of a client method under way or just
                  \* completed: its arguments, where it is (phase), the vendor
                  \* calls it made, in order, and what it returned or threw
    \* TokenLaunchForm
    formData,     \* useState: the form's fields
    isLaunching,  \* useState
    previewData,  \* useState: Null or the vendor's reserves
    launch,       \* the launchToken calls that handleLaunch invocations await, in
                  \* the order made: of each its arguments and the client it found
    formEvent,    \* history: the handler that ran last, what it did, the vendor
                  \* calls made for it and the curve parameters it read
    \* TradingInterface
    swapDirection,\* useState: "buy" or "sell"
    amount,       \* useState: the text of the amount input
    slippage,     \* useState: per cent, a number
    isSwapping,   \* useState
    quote,        \* useState: Null or the quote on display
    quoteRequests,\* the getSwapQuote calls that handleAmountChange invocations await
    swap,         \* the executeSwap calls that handleSwap invocations await
    lastChange,   \* history: the number of handleAmountChange invocations so far
    quoteFrom,    \* history: the handleAmountChange invocation that set the quote
                  \* on display, 0 when another handler set it
    \* Dashboard
    dashboard,    \* useState: stats, trendingPools, recentLaunches, userPositions,
                  \* isLoading; the loadDashboardData calls in flight (loads), the
                  \* client they found, and for the record how the last one to end
                  \* went (lastLoad)
    \* useWallet
    useWallet     \* useState: isConnected, address, balance, isLoading; where the
                  \* connect() in flight is (connect), the refreshBalance calls in
                  \* flight (refreshes), and for the record what the last connect()
                  \* to end reported and the state it started from

clientVars == <<client, wallet, initPc, initSucceeded, initResult>>

formVars == <<formData, isLaunching, previewData, launch, formEvent>>

tradeVars == <<swapDirection, amount, slippage, isSwapping, quote, quoteRequests,
               swap, lastChange, quoteFrom>>

pageVars == <<dashboard, useWallet>>

vars == <<client, wallet, initPc, initSucceeded, initResult, call, formData, isLaunching,
          previewData, launch, formEvent, swapDirection, amount, slippage,
          isSwapping, quote, quoteRequests, swap, lastChange, quoteFrom,
          dashboard, useWallet>>

(***************************************************************************)
(* Inputs.                                                                 *)
(***************************************************************************)
MaxAmount == 3

\* bigint amounts: small ones, round ones, and ones just above 2^53, where a
\* double no longer holds every integer
SmallAmounts == {Big(n) : n \in 0..MaxAmount} \cup {Big(100), Big(1000)}

LargeAmounts == {BigIntOf(1, BigAdd({MantissaBits}, FromInt(n))) : n \in 0..MaxAmount}

Amounts == SmallAmounts \cup LargeAmounts

BpsInputs == {0, 1, 100, 250, 2900, 9999, 10000}

MaxReserve == 2

Reserves == {Big(n) : n \in 0..MaxReserve}

\* the amounts calculatePriceImpact is called with: small ones, 2^53 and 2^53 + 1
PriceAmounts == Reserves \cup {BigIntOf(1, {MantissaBits}), BigIntOf(1, {0, MantissaBits})}

VendorThrows ==
    {Thrown(TRUE, <<"Insufficient balance">>), Thrown(TRUE, <<"Slippage exceeded">>),
     Thrown(TRUE, <<"Pool inactive">>), Thrown(TRUE, <<"Network error">>),
     Thrown(TRUE, <<"Pool inactive", "Slippage exceeded">>), Thrown(FALSE, <<>>),
     ThrownNullish}

PctInputs == {49, 50, 95, 96}

LaunchParams ==
    [name : {"Token"}, symbol : {"TKN"},
     initialSupply : {Big(1), Big(1000000)},
     graduationThresholdPct : PctInputs,
     targetRaise : {Big(0), Big(100000000)},
     lpFeeRateBps : {30}, totalHostFeeRateBps : {50}]

SwapParams ==
    [poolId : {"pool"},
     assetIn : {BITCOIN_PUBLIC_KEY}, assetOut : {"token"},
     amountIn : {Big(100000000)},
     minAmountOut : {Big(0), Big(7)},
     maxSlippageBps : {0, 100, 9999, 10000}]

\* the amountOut strings the vendor's simulation may return
SimulatedAmounts ==
    {ToDecimalString(a) : a \in {Big(0), Big(1000), BigIntOf(1, {0, 1, MantissaBits})}}

\* what the vendor may throw where the message is only passed on
PlainThrows == {Thrown(TRUE, <<"Network error">>), Thrown(FALSE, <<>>)}

\* no initialize() has settled yet
NoResult == [settled |-> FALSE]

PoolIds == {"pool"}

Filters == {"undefined", "filters"}

LiquidityParams == {"liquidity"}

InvoiceAmounts == {1000}

Memos == {"", "memo"}

\* a new call starts when the one before has completed
Idle == call.phase \in {"none", "done"}

Done(c, outcome) == [c EXCEPT !.phase = "done", !.outcome = outcome]

NewCall(op, args) ==
    [op |-> op, phase |-> "called", args |-> args, vendorCalls |-> <<>>,
     outcome |-> "pending"]

(***************************************************************************)
(* The helpers, called with any arguments.                                 *)
(***************************************************************************)
CallCalculateSlippage ==
    /\ Idle
    /\ \E amt \in Amounts, slippageBps \in BpsInputs :
          call' = NewCall("calculateSlippage",
                          [amount |-> amt, slippageBps |-> slippageBps])
    /\ UNCHANGED <<pageVars, clientVars, formVars, tradeVars>>

CalculateSlippage ==
    /\ call.phase = "called" /\ call.op = "calculateSlippage"
    /\ call' = Done(call, [kind  |-> "return",
                           value |-> calculateSlippage(call.args.amount,
                                                       call.args.slippageBps)])
    /\ UNCHANGED <<pageVars, clientVars, formVars, tradeVars>>

CallCalculatePriceImpact ==
    /\ Idle
    /\ \E amountIn \in PriceAmounts, amountOut \in PriceAmounts,
          reserveIn \in Reserves, reserveOut \in Reserves :
          call' = NewCall("calculatePriceImpact",
                          [amountIn |-> amountIn, amountOut |-> amountOut,
                           reserveIn |-> reserveIn, reserveOut |-> reserveOut])
    /\ UNCHANGED <<pageVars, clientVars, formVars, tradeVars>>

CalculatePriceImpact ==
    /\ call.phase = "called" /\ call.op = "calculatePriceImpact"
    /\ call' = Done(call, [kind  |-> "return",
                           value |-> calculatePriceImpact(call.args.amountIn,
                                         call.args.amountOut, call.args.reserveIn,
                                         call.args.reserveOut)])
    /\ UNCHANGED <<pageVars, clientVars, formVars, tradeVars>>

(***************************************************************************)
(* LaunchpadClient.initialize.                                             *)
(***************************************************************************)
\* initialize() is called: SparkWallet.initialize is awaited
InitializeStart ==
    /\ initPc = "idle"
    /\ initPc' = "wallet"
    /\ UNCHANGED <<pageVars, client, wallet, initSucceeded, initResult, call, formVars, tradeVars>>

\* SparkWallet.initialize settles; on success the wallet and the client are stored
\* and client.initialize() is awaited
InitializeWallet ==
    /\ initPc = "wallet"
    /\ \/ /\ wallet' = "SparkWallet"
          /\ client' = "FlashnetClient"
          /\ initPc' = "client"
          /\ UNCHANGED <<initSucceeded, initResult>>
       \/ /\ initPc' = "idle"
          /\ \E t \in PlainThrows : initResult' = Resolved(Failure(ErrorMessage(t)))
          /\ UNCHANGED <<client, wallet, initSucceeded>>
    /\ UNCHANGED <<pageVars, call, formVars, tradeVars>>

\* client.initialize() settles
InitializeClient ==
    /\ initPc = "client"
    /\ initPc' = "idle"
    /\ \/ /\ initSucceeded' = TRUE
          /\ initResult' = Resolved([success |-> TRUE])
       \/ /\ \E t \in PlainThrows : initResult' = Resolved(Failure(ErrorMessage(t)))
          /\ UNCHANGED initSucceeded
    /\ UNCHANGED <<pageVars, client, wallet, call, formVars, tradeVars>>

(***************************************************************************)
(* LaunchpadClient: the methods.  A method that starts with getClient()    *)
(* rejects at once while this.client is null.                              *)
(***************************************************************************)
\* (a variant that does not look at this.client)
ClientCallUnchecked(op, args) == NewCall(op, args)

ClientCall(op, args) ==
    IF client = "null"
    THEN Done(NewCall(op, args), Rejected(NotInitializedMessage))
    ELSE NewCall(op, args)

GetClient ==
    /\ Idle
    /\ call' = Done(NewCall("getClient", <<>>),
                    IF client = "null"
                    THEN [kind |-> "throw", error |-> NotInitializedMessage]
                    ELSE [kind |-> "return", value |-> client])
    /\ UNCHANGED <<pageVars, clientVars, formVars, tradeVars>>

\* (a variant that reaches the vendor through getClient())
CallCalculateVirtualReservesViaClient ==
    /\ Idle
    /\ \E p \in LaunchParams : call' = ClientCall("calculateVirtualReserves", p)
    /\ UNCHANGED <<pageVars, clientVars, formVars, tradeVars>>

CallCalculateVirtualReserves ==
    /\ Idle
    /\ \E p \in LaunchParams : call' = NewCall("calculateVirtualReserves", p)
    /\ UNCHANGED <<pageVars, clientVars, formVars, tradeVars>>

\* the ways a call of calculateVirtualReserves can go, with its arguments
CalculateVirtualReservesRuns ==
    {[args |-> p,
      run  |-> calculateVirtualReserves(ReservesArgs(p.initialSupply,
                                                     p.graduationThresholdPct,
                                                     p.targetRaise), vendorThrows, t)] :
        p \in LaunchParams, vendorThrows \in BOOLEAN, t \in PlainThrows}

CalculateVirtualReserves ==
    /\ call.phase = "called" /\ call.op = "calculateVirtualReserves"
    /\ \E r \in CalculateVirtualReservesRuns :
          /\ r.args = call.args
          /\ call' = [Done(call, r.run.outcome) EXCEPT !.vendorCalls = r.run.vendorCalls]
    /\ UNCHANGED <<pageVars, clientVars, formVars, tradeVars>>

CallLaunchToken ==
    /\ Idle
    /\ \E p \in LaunchParams : call' = ClientCall("launchToken", p)
    /\ UNCHANGED <<pageVars, clientVars, formVars, tradeVars>>

\* the vendor's derivation throws or returns, and then createSingleSidedPool settles
LaunchTokenRuns ==
    {[args |-> p, run |-> launchToken(p, reservesThrow, poolThrows, t)] :
        p \in LaunchParams, reservesThrow \in BOOLEAN, poolThrows \in BOOLEAN,
        t \in PlainThrows}

LaunchToken ==
    /\ call.phase = "called" /\ call.op = "launchToken"
    /\ \E r \in LaunchTokenRuns :
          /\ r.args = call.args
          /\ call' = [Done(call, r.run.outcome) EXCEPT !.vendorCalls = r.run.vendorCalls]
    /\ UNCHANGED <<pageVars, clientVars, formVars, tradeVars>>

CallGetSwapQuote ==
    /\ Idle
    /\ \E p \in SwapParams : call' = ClientCall("getSwapQuote", p)
    /\ UNCHANGED <<pageVars, clientVars, formVars, tradeVars>>

GetSwapQuoteRuns ==
    {[args |-> p, run |-> getSwapQuote(p, simThrows, out)] :
        p \in SwapParams, simThrows \in BOOLEAN, out \in SimulatedAmounts}

GetSwapQuote ==
    /\ call.phase = "called" /\ call.op = "getSwapQuote"
    /\ \E r \in GetSwapQuoteRuns :
          /\ r.args = call.args
          /\ call' = [Done(call, r.run.outcome) EXCEPT !.vendorCalls = r.run.vendorCalls]
    /\ UNCHANGED <<pageVars, clientVars, formVars, tradeVars>>

CallExecuteSwap ==
    /\ Idle
    /\ \E p \in SwapParams : call' = ClientCall("executeSwap", p)
    /\ UNCHANGED <<pageVars, clientVars, formVars, tradeVars>>

\* simulateSwap settles, and then the vendor's executeSwap settles
ExecuteSwapRuns ==
    {[args |-> p, run |-> executeSwap(p, simThrows, out, execThrows, t)] :
        p \in SwapParams, simThrows \in BOOLEAN, out \in SimulatedAmounts,
        execThrows \in BOOLEAN, t \in VendorThrows}

ExecuteSwap ==
    /\ call.phase = "called" /\ call.op = "executeSwap"
    /\ \E r \in ExecuteSwapRuns :
          /\ r.args = call.args
          /\ call' = [op |-> call.op, phase |-> "done", args |-> call.args,
                      vendorCalls |-> r.run.vendorCalls, outcome |-> r.run.outcome,
                      thrown |-> r.run.thrown]
    /\ UNCHANGED <<pageVars, clientVars, formVars, tradeVars>>

GetPool ==
    /\ Idle
    /\ \E poolId \in PoolIds, vendorThrows \in BOOLEAN :
          LET c == ClientCall("getPool", poolId)
              r == getPool(poolId, vendorThrows)
          IN  call' = IF c.phase = "done" THEN c
                      ELSE [Done(c, r.outcome) EXCEPT !.vendorCalls = r.vendorCalls]
    /\ UNCHANGED <<pageVars, clientVars, formVars, tradeVars>>

ListPools ==
    /\ Idle
    /\ \E filters \in Filters, vendorThrows \in BOOLEAN :
          LET c == ClientCall("listPools", filters)
              r == listPools(filters, vendorThrows, <<"pool">>)
          IN  call' = IF c.phase = "done" THEN c
                      ELSE [Done(c, r.outcome) EXCEPT !.vendorCalls = r.vendorCalls]
    /\ UNCHANGED <<pageVars, clientVars, formVars, tradeVars>>

GetLpPosition ==
    /\ Idle
    /\ \E poolId \in PoolIds, vendorThrows \in BOOLEAN :
          LET c == ClientCall("getLpPosition", poolId)
              r == getLpPosition(poolId, vendorThrows)
          IN  call' = IF c.phase = "done" THEN c
                      ELSE [Done(c, r.outcome) EXCEPT !.vendorCalls = r.vendorCalls]
    /\ UNCHANGED <<pageVars, clientVars, formVars, tradeVars>>

AddLiquidity ==
    /\ Idle
    /\ \E params \in LiquidityParams, vendorThrows \in BOOLEAN, t \in PlainThrows :
          LET c == ClientCall("addLiquidity", params)
              r == addLiquidity(params, vendorThrows, t)
          IN  call' = IF c.phase = "done" THEN c
                      ELSE [Done(c, r.outcome) EXCEPT !.vendorCalls = r.vendorCalls]
    /\ UNCHANGED <<pageVars, clientVars, formVars, tradeVars>>

\* createInvoice starts with getWallet(), which throws while this.wallet is null
CreateInvoice ==
    /\ Idle
    /\ \E amountSats \in InvoiceAmounts, memo \in Memos, vendorThrows \in BOOLEAN,
          t \in PlainThrows :
          LET c == NewCall("createInvoice", [amountSats |-> amountSats, memo |-> memo])
              r == createInvoice(amountSats, memo, vendorThrows, t)
          IN  call' = IF wallet = "null"
                      THEN Done(c, Rejected(WalletNotInitializedMessage))
                      ELSE [Done(c, r.outcome) EXCEPT !.vendorCalls = r.vendorCalls]
    /\ UNCHANGED <<pageVars, clientVars, formVars, tradeVars>>

(***************************************************************************)
(* TokenLaunchForm.  A handler reads the state of the render it was made   *)
(* in; a state setter takes effect at the next render.  React renders      *)
(* after each event and after each awaited continuation, so a handler      *)
(* sees the state as it was when its event began.                          *)
(***************************************************************************)
SatsPerBtc == 100000000

DefaultFormData ==
    [name |-> "", symbol |-> "",
     initialSupply |-> Big(1000000),
     graduationThresholdPct |-> 80,
     targetRaise |-> Big(SatsPerBtc),
     lpFeeRateBps |-> 30, totalHostFeeRateBps |-> 50]

\* the text of a number input: a decimal literal s * n / 10^scale, or empty
Text(s, n, scale) == [s |-> s, n |-> n, scale |-> scale]

EmptyText == [empty |-> TRUE]

\* no call awaited
NoCall == <<>>

\* the calls awaited without the i-th
Settled(calls, i) == SubSeq(calls, 1, i - 1) \o SubSeq(calls, i + 1, Len(calls))

RECURSIVE Pow10(_)
Pow10(n) == IF n = 0 THEN 1 ELSE 10 * Pow10(n - 1)

\* parseInt(text) as a double: the digits before the point, NaN for ""
parseInt(text) ==
    IF text = EmptyText THEN NaN ELSE Fin(text.s, FromInt(text.n \div Pow10(text.scale)), 0)

\* parseFloat(text): the double nearest to the literal, NaN for ""
parseFloat(text) ==
    IF text = EmptyText THEN NaN
    ELSE FDiv(Fin(text.s, FromInt(text.n), 0), FInt(Pow10(text.scale)))

\* x || d for a number x: d when x is 0 or NaN
OrElse(x, d) == IF x.k = "nan" \/ IsZero(x) THEN d ELSE x

\* Math.max(1, x) for a finite x
MaxWithOne(x) ==
    IF x.s = -1 \/ IsZero(x) \/ x.e < 0 THEN FInt(1) ELSE x

\* (a variant without the clamp: BigInt(parseInt(e.target.value) || 0))
SupplyOfTextUnclamped(text) == FloorToBigInt(OrElse(parseInt(text), Zero(1)))

\* BigInt(Math.max(1, parseInt(e.target.value) || 1))
SupplyOfText(text) == FloorToBigInt(MaxWithOne(OrElse(parseInt(text), FInt(1))))

\* BigInt(Math.floor((parseFloat(e.target.value) || 0) * 100000000))
RaiseOfText(text) ==
    FloorToBigInt(FMul(OrElse(parseFloat(text), Zero(1)), FInt(SatsPerBtc)))

\* what the user can enter
NameInputs == {"Token"}

SymbolInputs == {"TKN"}

\* the supply input's text: empty (so is, in a number input, any text that is
\* no number), "0" and "-5"
SupplyTexts == {EmptyText, Text(1, 0, 0), Text(-1, 5, 0)}

\* the range slider: min 50, max 95
ThresholdInputs == {50}

RaiseTexts == {Text(1, 0, 0), Text(-1, 1, 0)}

SupplyInputs == {SupplyOfText(t) : t \in SupplyTexts}

RaiseInputs == {RaiseOfText(t) : t \in RaiseTexts}

\* the value handleInputChange is called with, for each field
InputValues(field) ==
    CASE field = "name"                   -> NameInputs
      [] field = "symbol"                 -> SymbolInputs
      [] field = "initialSupply"          -> SupplyInputs
      [] field = "graduationThresholdPct" -> ThresholdInputs
      [] field = "targetRaise"            -> RaiseInputs

Fields == {"name", "symbol", "initialSupply", "graduationThresholdPct", "targetRaise"}

PreviewFields == {"initialSupply", "graduationThresholdPct", "targetRaise"}

\* truthiness of a bigint
TruthyBig(b) == b.mag # {}

\* updatePreview, reading the form data fd: what happened, the vendor call it
\* made and the value it passed to setPreviewData (when it did)
updatePreview(fd, vendorThrows) ==
    IF TruthyBig(fd.initialSupply) /\ fd.graduationThresholdPct # 0 /\ TruthyBig(fd.targetRaise)
    THEN LET r == calculateVirtualReserves(
                      ReservesArgs(fd.initialSupply, fd.graduationThresholdPct,
                                   fd.targetRaise),
                      vendorThrows, Thrown(FALSE, <<>>))
         IN  IF vendorThrows
             THEN [did |-> "threw", vendorCalls |-> r.vendorCalls]
             ELSE [did |-> "computed", vendorCalls |-> r.vendorCalls,
                   preview |-> r.outcome.value]
    ELSE [did |-> "skipped", vendorCalls |-> <<>>]

\* the values a field of the form can hold
FormValues(field) == InputValues(field) \cup {DefaultFormData[field]}

\* the ways updatePreview can go, with the fields it reads
UpdatePreviewRuns ==
    {[fd  |-> fd, vendorThrows |-> vendorThrows, run |-> updatePreview(fd, vendorThrows)] :
        fd \in [initialSupply          : FormValues("initialSupply"),
                graduationThresholdPct : FormValues("graduationThresholdPct"),
                targetRaise            : FormValues("targetRaise")],
        vendorThrows \in BOOLEAN}

\* history: the curve parameters that the handler which made the vendor calls
\* read them from
ReadBy(vendorCalls, fd) ==
    IF vendorCalls = <<>> THEN Null ELSE [f \in PreviewFields |-> fd[f]]

\* handleInputChange(field, value): the setter is queued and updatePreview runs
\* with the form data of this render
HandleInputChange ==
    /\ \E field \in Fields :
       \E value \in InputValues(field), r \in UpdatePreviewRuns :
          LET p == r.run
          IN  /\ \A f \in PreviewFields : r.fd[f] = formData[f]
              /\ formData' = [formData EXCEPT ![field] = value]
              /\ IF field \in PreviewFields
                 THEN /\ previewData' = IF p.did = "computed" THEN p.preview
                                        ELSE previewData
                      /\ formEvent' = [handler |-> "handleInputChange", did |-> p.did,
                                       vendorCalls |-> p.vendorCalls,
                                       read |-> ReadBy(p.vendorCalls, formData)]
                 ELSE /\ previewData' = previewData
                      /\ formEvent' = [handler |-> "handleInputChange", did |-> "nothing",
                                       vendorCalls |-> <<>>, read |-> Null]
    /\ UNCHANGED <<pageVars, clientVars, call, isLaunching, launch, tradeVars>>

\* (a variant that does not look at isLaunching)
LaunchDisabledWhenIncomplete == formData.name = "" \/ formData.symbol = ""

\* the Launch button is disabled
LaunchDisabled == isLaunching \/ formData.name = "" \/ formData.symbol = ""

\* handleLaunch up to its await: the validation, then launchToken is called
HandleLaunch ==
    /\ ~LaunchDisabled
    /\ IF formData.name = "" \/ formData.symbol = "" \/ ~TruthyBig(formData.initialSupply)
       THEN /\ formEvent' = [handler |-> "handleLaunch", did |-> "toast.error",
                             vendorCalls |-> <<>>, read |-> Null]
            /\ UNCHANGED <<isLaunching, launch>>
       ELSE /\ isLaunching' = TRUE
            /\ launch' = Append(launch, [params |-> formData, client |-> client])
            /\ formEvent' = [handler |-> "handleLaunch", did |-> "launchToken",
                             vendorCalls |-> <<>>, read |-> Null]
    /\ UNCHANGED <<pageVars, clientVars, call, formData, previewData, tradeVars>>

\* the ways launchToken can go when the form calls it, with the form data passed
FormLaunchRuns ==
    {[fd |-> fd, run |-> launchToken(fd, reservesThrow, poolThrows, t)] :
        fd \in [name                   : FormValues("name"),
                symbol                 : FormValues("symbol"),
                initialSupply          : FormValues("initialSupply"),
                graduationThresholdPct : FormValues("graduationThresholdPct"),
                targetRaise            : FormValues("targetRaise"),
                lpFeeRateBps           : {DefaultFormData.lpFeeRateBps},
                totalHostFeeRateBps    : {DefaultFormData.totalHostFeeRateBps}],
        reservesThrow \in BOOLEAN, poolThrows \in BOOLEAN, t \in PlainThrows}

\* launchToken settles and handleLaunch runs on: on success the form is reset;
\* in every case isLaunching is cleared
LaunchSettles ==
    /\ \E i \in 1..Len(launch), run \in FormLaunchRuns :
          LET r == IF launch[i].client = "null" THEN Rejected(NotInitializedMessage)
                   ELSE run.run.outcome
              v == IF launch[i].client = "null" THEN <<>> ELSE run.run.vendorCalls
          IN  /\ run.fd = launch[i].params
              /\ launch' = Settled(launch, i)
              /\ IF r.kind = "resolved" /\ r.value.success
                 THEN /\ formData' = DefaultFormData
                      /\ formEvent' = [handler |-> "handleLaunch", did |-> "toast.success",
                                       vendorCalls |-> v,
                                       read |-> ReadBy(v, launch[i].params)]
                 ELSE /\ formData' = formData
                      /\ formEvent' = [handler |-> "handleLaunch", did |-> "toast.error",
                                       vendorCalls |-> v,
                                       read |-> ReadBy(v, launch[i].params)]
    /\ isLaunching' = FALSE
    /\ UNCHANGED <<pageVars, clientVars, call, previewData, tradeVars>>

InitForm ==
    /\ formData = DefaultFormData
    /\ isLaunching = FALSE
    /\ previewData = Null
    /\ launch = NoCall
    /\ formEvent = [handler |-> "none", did |-> "nothing", vendorCalls |-> <<>>,
                    read |-> Null]

(***************************************************************************)
(* TradingInterface, for one pool.                                         *)
(***************************************************************************)
TokenUnitsPerToken == 1000000

PoolId == "pool"

\* poolInfo.assetAAddress
AssetAAddress == "token"

\* x > 0 for a number x
Positive(x) == x.k # "nan" /\ x.s = 1 /\ ~IsZero(x)

\* value && parseFloat(value) > 0
ValidAmount(value) == value # EmptyText /\ Positive(parseFloat(value))

\* the swapParams handleSwap and handleAmountChange build for the text value
swapParams(value, direction, slippagePct) ==
    [poolId   |-> PoolId,
     assetIn  |-> IF direction = "buy" THEN BITCOIN_PUBLIC_KEY ELSE AssetAAddress,
     assetOut |-> IF direction = "buy" THEN AssetAAddress ELSE BITCOIN_PUBLIC_KEY,
     amountIn |-> FloorToBigInt(FMul(parseFloat(value),
                      FInt(IF direction = "buy" THEN SatsPerBtc ELSE TokenUnitsPerToken))),
     minAmountOut   |-> Big(0),
     maxSlippageBps |-> ToInt(FloorToBigInt(FMul(slippagePct, FInt(100))).mag)]

\* what the user can type into the amount input
AmountTexts == {Text(1, 0, 0), Text(1, 1, 0), Text(1, 25, 1)}

\* the slippage buttons
SlippageChoices == {FDiv(FInt(5), FInt(10))}

\* the amountOut strings the vendor's simulation may quote
QuotedAmounts == {ToDecimalString(a) : a \in {Big(1000), Big(2000)}}

MaxChanges == 2

\* handleAmountChange(value) up to its await
HandleAmountChange ==
    /\ lastChange < MaxChanges
    /\ \E value \in AmountTexts :
          /\ amount' = value
          /\ lastChange' = lastChange + 1
          /\ IF ValidAmount(value)
             THEN /\ quoteRequests' = quoteRequests \cup
                         {[invocation |-> lastChange + 1,
                           params     |-> swapParams(value, swapDirection, slippage),
                           client     |-> client]}
                  /\ UNCHANGED <<quote, quoteFrom>>
             ELSE /\ quote' = Null
                  /\ quoteFrom' = lastChange + 1
                  /\ UNCHANGED quoteRequests
    /\ UNCHANGED <<pageVars, clientVars, call, formVars, swapDirection, slippage, isSwapping, swap>>

\* a getSwapQuote call settles and its handleAmountChange invocation runs on
QuoteSettles ==
    /\ \E request \in quoteRequests :
       \E simThrows \in BOOLEAN, amountOutString \in QuotedAmounts :
          LET r == IF request.client = "null" THEN Rejected(NotInitializedMessage)
                   ELSE getSwapQuoteResult(request.params, simThrows, amountOutString)
          IN  /\ quote' = IF r.kind = "resolved" THEN r.value ELSE Null
              /\ quoteFrom' = request.invocation
              /\ quoteRequests' = quoteRequests \ {request}
    /\ UNCHANGED <<pageVars, clientVars, call, formVars, swapDirection, amount, slippage,
                   isSwapping, swap, lastChange>>

\* the Swap button is disabled
SwapDisabled == isSwapping \/ ~ValidAmount(amount)

\* handleSwap up to its await
HandleSwap ==
    /\ ~SwapDisabled
    /\ IF ~ValidAmount(amount)
       THEN UNCHANGED <<isSwapping, swap>>
       ELSE /\ isSwapping' = TRUE
            /\ swap' = Append(swap, [params |-> swapParams(amount, swapDirection, slippage),
                                     client |-> client])
    /\ UNCHANGED <<pageVars, clientVars, call, formVars, swapDirection, amount, slippage, quote,
                   quoteRequests, lastChange, quoteFrom>>

\* executeSwap settles and handleSwap runs on
SwapSettles ==
    /\ \E i \in 1..Len(swap), simThrows \in BOOLEAN, amountOutString \in QuotedAmounts,
          execThrows \in BOOLEAN, t \in PlainThrows :
          LET r == IF swap[i].client = "null" THEN Rejected(NotInitializedMessage)
                   ELSE executeSwapResult(simThrows, execThrows, t)
          IN  /\ swap' = Settled(swap, i)
              /\ IF r.kind = "resolved" /\ r.value.success
                 THEN /\ amount' = EmptyText
                      /\ quote' = Null
                      /\ quoteFrom' = 0
                 ELSE UNCHANGED <<amount, quote, quoteFrom>>
    /\ isSwapping' = FALSE
    /\ UNCHANGED <<pageVars, clientVars, call, formVars, swapDirection, slippage, quoteRequests,
                   lastChange>>

FlipSwapDirection ==
    /\ swapDirection' = (IF swapDirection = "buy" THEN "sell" ELSE "buy")
    /\ amount' = EmptyText
    /\ quote' = Null
    /\ quoteFrom' = 0
    /\ UNCHANGED <<pageVars, clientVars, call, formVars, slippage, isSwapping, quoteRequests, swap,
                   lastChange>>

\* a slippage button is clicked
SetSlippage ==
    /\ \E value \in SlippageChoices : slippage' = value
    /\ UNCHANGED <<pageVars, clientVars, call, formVars, swapDirection, amount, isSwapping, quote,
                   quoteRequests, swap, lastChange, quoteFrom>>

InitTrade ==
    /\ swapDirection = "buy"
    /\ amount = EmptyText
    /\ slippage = FInt(1)
    /\ isSwapping = FALSE
    /\ quote = Null
    /\ quoteRequests = {}
    /\ swap = NoCall
    /\ lastChange = 0
    /\ quoteFrom = 0

(***************************************************************************)
(* Dashboard.  loadDashboardData is called by the mount effect and nowhere *)
(* else; it reads no state, so its continuation is one step.               *)
(***************************************************************************)
\* the pools the vendor may list: volume24h a bigint or missing (Null)
Pool(poolId, curveType, volume24h, isGraduated) ==
    [poolId |-> poolId, curveType |-> curveType, volume24h |-> volume24h,
     isGraduated |-> isGraduated]

\* pool ids, in the order localeCompare gives them
PoolIdsInOrder == <<"a", "b", "c", "d", "e">>

VendorPools ==
    {Pool("a", "SINGLE_SIDED", BigIntOf(1, {MantissaBits}), FALSE),
     Pool("b", "SINGLE_SIDED", BigIntOf(1, {0, MantissaBits}), FALSE),
     Pool("c", "SINGLE_SIDED", Null, FALSE),
     Pool("d", "CONSTANT_PRODUCT", BigIntOf(1, {1, MantissaBits}), FALSE),
     Pool("e", "SINGLE_SIDED", Big(5), TRUE)}

MaxPools == 4

\* the vendor's lists: up to MaxPools of the pools, each at most once, in any order
PoolLists ==
    UNION {{l \in [1..n -> VendorPools] : \A i, j \in 1..n : l[i] = l[j] => i = j} :
              n \in 0..MaxPools}

\* Number(pool.volume24h || 0)
VolumeNumber(pool) ==
    IF pool.volume24h = Null \/ pool.volume24h.mag = {} THEN Zero(1)
    ELSE Number(pool.volume24h)

\* a.localeCompare(b) for two pool ids: negative, zero or positive
localeCompare(a, b) ==
    (CHOOSE i \in 1..Len(PoolIdsInOrder) : PoolIdsInOrder[i] = a)
        - (CHOOSE i \in 1..Len(PoolIdsInOrder) : PoolIdsInOrder[i] = b)

\* the comparators of the two sorts: the call is negative, and a goes first
Before(a, b, by) ==
    IF by = "volume24h"
    THEN LET d == FSub(VolumeNumber(b), VolumeNumber(a)) IN d.s = -1 /\ ~IsZero(d)
    ELSE localeCompare(b.poolId, a.poolId) < 0

\* a sorted array with one more element put where the comparator wants it: behind
\* the elements it is not to go before
Inserted(sorted, last, by) ==
    LET k == Cardinality({i \in 1..Len(sorted) : ~Before(last, sorted[i], by)})
    IN  SubSeq(sorted, 1, k) \o <<last>> \o SubSeq(sorted, k + 1, Len(sorted))

RECURSIVE sort(_, _)
\* Array.prototype.sort with one of the comparators: stable
sort(arr, by) ==
    IF arr = <<>> THEN <<>>
    ELSE Eval3(Inserted, sort(SubSeq(arr, 1, Len(arr) - 1), by), arr[Len(arr)], by)

\* arr.slice(0, n)
slice(arr, n) == SubSeq(arr, 1, IntMin(n, Len(arr)))

RECURSIVE TotalVolume(_)
\* reduce((total, pool) => total + (pool.volume24h || BigInt(0)), BigInt(0))
TotalVolume(arr) ==
    IF arr = <<>> THEN Big(0)
    ELSE LET v == arr[Len(arr)].volume24h
         IN  BigIntOf(1, BigAdd(TotalVolume(SubSeq(arr, 1, Len(arr) - 1)).mag,
                                IF v = Null THEN {} ELSE v.mag))

EmptyStats ==
    [totalTokensLaunched |-> 0, totalVolumeTraded |-> Big(0), totalGraduated |-> 0,
     activePools |-> 0]

\* what the try block of loadDashboardData sets, and its finally: byVolume is
\* bondingCurvePools after the first sort, which the second sort starts from
Loaded(bondingCurvePools, byVolume) ==
    [stats          |-> [totalTokensLaunched |-> Len(bondingCurvePools),
                         totalVolumeTraded   |-> TotalVolume(bondingCurvePools),
                         totalGraduated      |->
                             Len(SelectSeq(bondingCurvePools,
                                           LAMBDA pool : pool.isGraduated)),
                         activePools         |-> Len(bondingCurvePools)],
     trendingPools  |-> slice(byVolume, 3),
     recentLaunches |-> slice(sort(byVolume, "poolId"), 2),
     userPositions  |-> <<>>,
     isLoading      |-> FALSE]

LoadedFrom(bondingCurvePools) ==
    Eval2(Loaded, bondingCurvePools, sort(bondingCurvePools, "volume24h"))

\* (a variant that clears isLoading at the end of its try block)
loadDashboardDataWithoutFinally(listing) ==
    IF listing.kind = "resolved"
    THEN Eval1(LoadedFrom, SelectSeq(listing.value.pools,
                                     LAMBDA pool : pool.curveType = "SINGLE_SIDED"))
    ELSE [stats |-> EmptyStats, trendingPools |-> <<>>, recentLaunches |-> <<>>,
          userPositions |-> <<>>, isLoading |-> TRUE]

\* loadDashboardData after its await: listing is what listPools settled to.  The
\* values it passes to the setters.
loadDashboardData(listing) ==
    IF listing.kind = "resolved"
    THEN Eval1(LoadedFrom, SelectSeq(listing.value.pools,
                                     LAMBDA pool : pool.curveType = "SINGLE_SIDED"))
    ELSE [stats |-> EmptyStats, trendingPools |-> <<>>, recentLaunches |-> <<>>,
          userPositions |-> <<>>, isLoading |-> FALSE]

\* the ways a load can go on an initialised client: what the vendor did, what
\* listPools() settled to, and what loadDashboardData set
DashboardLoads ==
    {[went |-> "listed", pools |-> pools,
      run  |-> loadDashboardData(listPools("undefined", FALSE, pools).outcome)] :
        pools \in PoolLists}
    \cup {[went |-> "vendor error", pools |-> <<>>,
           run  |-> loadDashboardData(listPools("undefined", TRUE, <<>>).outcome)]}

\* the mount effect runs once, or twice under React's strict mode
MaxLoads == 2

\* a loadDashboardData call ends
LoadSettles ==
    /\ dashboard.loads > 0
    /\ \E load \in DashboardLoads :
          LET run == IF dashboard.client = "null"
                     THEN loadDashboardData(Rejected(NotInitializedMessage))
                     ELSE load.run
          IN  dashboard' = [stats          |-> run.stats,
                            trendingPools  |-> run.trendingPools,
                            recentLaunches |-> run.recentLaunches,
                            userPositions  |-> run.userPositions,
                            isLoading      |-> run.isLoading,
                            loads          |-> dashboard.loads - 1,
                            client         |-> dashboard.client,
                            lastLoad       |-> IF dashboard.client = "null"
                                               THEN [went |-> "rejected", pools |-> <<>>]
                                               ELSE [went |-> load.went,
                                                     pools |-> load.pools]]
    /\ UNCHANGED <<useWallet, clientVars, call, formVars, tradeVars>>

\* after the mount effect: loadDashboardData has set isLoading and awaits
\* listPools()
InitDashboard(effects) ==
    \E loads \in effects :
        dashboard = [stats |-> EmptyStats, trendingPools |-> <<>>, recentLaunches |-> <<>>,
                     userPositions |-> <<>>, isLoading |-> TRUE, loads |-> loads,
                     client |-> client, lastLoad |-> [went |-> "none", pools |-> <<>>]]

(***************************************************************************)
(* useWallet.  One instance of the hook.  The setters of one synchronous   *)
(* stretch of a handler take effect together, at its next await or at its  *)
(* end.                                                                    *)
(***************************************************************************)
\* what wallet.getAddress() and wallet.getBalance() give when they do not throw
\* (records, as null is one)
Addresses == {[address |-> "sprt1"]}

Balances == {[balance |-> "1000"]}

\* what the vendor's wallet methods throw or reject with
WalletThrows == PlainThrows \cup {ThrownNullish}

\* the ways a call of wallet.getAddress() can go
GetAddressRuns == {Returns(a) : a \in Addresses} \cup WalletThrows

\* the three values the hook is about
Visible(h) == [isConnected |-> h.isConnected, address |-> h.address, balance |-> h.balance]

\* (apart: the three values as they would be without the writes of the connect()
\* in flight; the same as the values themselves when none is in flight)
Kept(h) == IF h.connect = "idle" THEN [h EXCEPT !.apart = Visible(h)] ELSE h

\* the hook after its mount effect; getAddress is how wallet.getAddress() went
MountedUseWallet(w, getAddress) ==
    LET found == w # "null"
    IN  Kept([isConnected |-> found,
              address     |-> IF found /\ getAddress \notin WalletThrows
                              THEN getAddress.returned ELSE Null,
              balance     |-> Null,
              isLoading   |-> FALSE,
              connect     |-> "idle",
              refreshes   |-> 0,
              report      |-> "none",
              apart       |-> Null])

InitUseWallet(runs) ==
    \E getAddress \in runs :
        useWallet = MountedUseWallet(wallet, getAddress)

\* a new instance of the hook is mounted; what is still in flight belongs to the
\* instance before it
MountUseWallet ==
    /\ useWallet.connect = "idle"
    /\ \E getAddress \in GetAddressRuns :
          useWallet' = MountedUseWallet(wallet, getAddress)
    /\ UNCHANGED <<dashboard, clientVars, call, formVars, tradeVars>>

\* connect() up to its await; initialize() runs up to its own first await
Connect ==
    /\ useWallet.connect = "idle"
    /\ initPc = "idle"
    /\ useWallet' = [useWallet EXCEPT !.isLoading = TRUE, !.connect = "initialize",
                                      !.report = "none"]
    /\ initPc' = "wallet"
    /\ UNCHANGED <<dashboard, client, wallet, initSucceeded, initResult, call, formVars,
                   tradeVars>>

\* (a variant in which a throw inside the catch block skips setIsLoading(false))
ConnectCaughtWithoutFinally(h, t) ==
    [h EXCEPT !.isLoading = t.nullish, !.connect = "idle",
              !.report = IF t.nullish THEN "rejected" ELSE "error"]

\* toast.error('Failed to connect wallet: ' + (error.message || error)) in the
\* catch of connect, and its finally
ConnectCaught(h, t) ==
    [h EXCEPT !.isLoading = FALSE, !.connect = "idle",
              !.report = IF t.nullish THEN "rejected" ELSE "error"]

\* connect() after initialize() has settled, up to its next await or its end
ConnectInitialized ==
    /\ useWallet.connect = "initialize"
    /\ initPc = "idle"
    /\ \/ /\ initResult.value.success
          /\ \E getAddress \in GetAddressRuns :
                LET connected == [useWallet EXCEPT !.isConnected = TRUE]
                IN  useWallet' =
                        IF wallet = "null"
                        THEN Kept(ConnectCaught(useWallet,
                                                Thrown(TRUE, WalletNotInitializedMessage)))
                        ELSE IF getAddress \in WalletThrows
                        THEN Kept(ConnectCaught(connected, getAddress))
                        ELSE [connected EXCEPT !.address = getAddress.returned,
                                               !.connect = "getBalance"]
       \/ /\ ~initResult.value.success
          /\ useWallet' = Kept([useWallet EXCEPT !.isLoading = FALSE, !.connect = "idle",
                                                 !.report = "error"])
    /\ UNCHANGED <<dashboard, clientVars, call, formVars, tradeVars>>

\* wallet.getBalance() settles in connect()
ConnectSettles ==
    /\ useWallet.connect = "getBalance"
    /\ \/ \E balanceData \in Balances :
             useWallet' = Kept([useWallet EXCEPT !.balance = balanceData,
                                                !.isLoading = FALSE, !.connect = "idle",
                                                !.report = "success"])
       \/ \E t \in WalletThrows : useWallet' = Kept(ConnectCaught(useWallet, t))
    /\ UNCHANGED <<dashboard, clientVars, call, formVars, tradeVars>>

\* what disconnect() sets
Disconnected == [isConnected |-> FALSE, address |-> Null, balance |-> Null]

\* the three setters of disconnect() and its toast
disconnect(h) ==
    [h EXCEPT !.isConnected = FALSE, !.address = Null, !.balance = Null,
              !.apart = Disconnected, !.report = "disconnected"]

\* (a variant that also drops the singleton's wallet and client)
DisconnectAndReset ==
    /\ useWallet' = disconnect(useWallet)
    /\ wallet' = "null"
    /\ client' = "null"
    /\ UNCHANGED <<dashboard, initPc, initSucceeded, initResult, call, formVars, tradeVars>>

Disconnect ==
    /\ useWallet' = disconnect(useWallet)
    /\ UNCHANGED <<dashboard, clientVars, call, formVars, tradeVars>>

MaxRefreshes == 1

\* refreshBalance() up to its await; it returns at once when not connected
RefreshBalance ==
    /\ useWallet.isConnected
    /\ wallet # "null"
    /\ useWallet.refreshes < MaxRefreshes
    /\ useWallet' = [useWallet EXCEPT !.refreshes = @ + 1]
    /\ UNCHANGED <<dashboard, clientVars, call, formVars, tradeVars>>

\* wallet.getBalance() settles in refreshBalance()
RefreshSettles ==
    /\ useWallet.refreshes > 0
    /\ \/ \E balanceData \in Balances :
             useWallet' = [useWallet EXCEPT !.balance = balanceData,
                                           !.apart.balance = balanceData,
                                           !.refreshes = @ - 1]
       \/ useWallet' = [useWallet EXCEPT !.refreshes = @ - 1]
    /\ UNCHANGED <<dashboard, clientVars, call, formVars, tradeVars>>

Init ==
    /\ client = "null"
    /\ wallet = "null"
    /\ initPc = "idle"
    /\ initSucceeded = FALSE
    /\ initResult = NoResult
    /\ call = [op |-> "none", phase |-> "none"]
    /\ InitForm
    /\ InitTrade
    /\ InitDashboard({1})
    /\ InitUseWallet({Returns([address |-> "sprt1"])})

\* a component is mounted before or after initialize() has succeeded
Mounted ==
    /\ \E initialized \in BOOLEAN :
          /\ client = (IF initialized THEN "FlashnetClient" ELSE "null")
          /\ wallet = (IF initialized THEN "SparkWallet" ELSE "null")
          /\ initSucceeded = initialized
          /\ initResult = (IF initialized THEN Resolved([success |-> TRUE]) ELSE NoResult)
    /\ initPc = "idle"
    /\ call = [op |-> "none", phase |-> "none"]
    /\ InitForm
    /\ InitTrade

\* the form and the trading panel, whatever the rest of the page does
InitMounted == Mounted /\ InitDashboard({1}) /\ InitUseWallet({Returns([address |-> "sprt1"])})

\* the dashboard and the hook, in each way their mount effects can have gone
InitPage == Mounted /\ InitDashboard(1..MaxLoads) /\ InitUseWallet(GetAddressRuns)

\* the dashboard alone
DashboardNext == LoadSettles

SpecDashboard == InitPage /\ [][DashboardNext]_vars

\* one useWallet, with the initialize() its connect() starts
WalletNext ==
    \/ MountUseWallet
    \/ Connect
    \/ InitializeWallet
    \/ InitializeClient
    \/ ConnectInitialized
    \/ ConnectSettles
    \/ Disconnect
    \/ RefreshBalance
    \/ RefreshSettles

SpecWallet == InitPage /\ [][WalletNext]_vars

FormNext ==
    \/ HandleInputChange
    \/ HandleLaunch
    \/ LaunchSettles

SpecForm == InitMounted /\ [][FormNext]_vars

TradeNext ==
    \/ HandleAmountChange
    \/ QuoteSettles
    \/ HandleSwap
    \/ SwapSettles
    \/ FlipSwapDirection
    \/ SetSlippage

SpecTrade == InitMounted /\ [][TradeNext]_vars

\* the helpers alone
HelperNext ==
    \/ CallCalculateSlippage
    \/ CalculateSlippage
    \/ CallCalculatePriceImpact
    \/ CalculatePriceImpact

SpecHelpers == Init /\ [][HelperNext]_vars

Next ==
    \/ InitializeStart
    \/ InitializeWallet
    \/ InitializeClient
    \/ GetClient
    \/ CallCalculateVirtualReserves
    \/ CalculateVirtualReserves
    \/ CallLaunchToken
    \/ LaunchToken
    \/ CallGetSwapQuote
    \/ GetSwapQuote
    \/ CallExecuteSwap
    \/ ExecuteSwap
    \/ GetPool
    \/ ListPools
    \/ GetLpPosition
    \/ AddLiquidity
    \/ CreateInvoice

Spec == Init /\ [][Next]_vars

(***************************************************************************)
(* The page.  Its parts share the LaunchpadClient singleton and nothing    *)
(* else, and a handler reads it once, when it calls a method.  One part is *)
(* at work at a time, the others being as they are right after mounting,   *)
(* on a client never initialised or initialised with success.              *)
(***************************************************************************)
ClientAtRest ==
    /\ call.phase = "none"
    /\ initPc = "idle"
    /\ initResult \in {NoResult, Resolved([success |-> TRUE])}

FormAtRest == InitForm

TradeAtRest == InitTrade

DashboardAtRest == dashboard.lastLoad.went = "none"

WalletAtRest == InitUseWallet({Returns([address |-> "sprt1"])})

\* the methods called directly, the form, the trading panel and the dashboard
PageNext ==
    \/ FormAtRest /\ TradeAtRest /\ DashboardAtRest /\ Next
    \/ ClientAtRest /\ TradeAtRest /\ DashboardAtRest /\ FormNext
    \/ ClientAtRest /\ FormAtRest /\ DashboardAtRest /\ TradeNext
    \/ ClientAtRest /\ FormAtRest /\ TradeAtRest /\ DashboardNext

SpecPage == InitMounted /\ [][PageNext]_vars

\* the three handlers with a busy flag: the form, the trading panel and useWallet
BusyNext ==
    \/ ClientAtRest /\ TradeAtRest /\ WalletAtRest /\ FormNext
    \/ ClientAtRest /\ FormAtRest /\ WalletAtRest /\ TradeNext
    \/ FormAtRest /\ TradeAtRest /\ WalletNext

\* a promise that is awaited settles, and the continuation of a settled one runs
SpecBusy ==
    /\ InitMounted
    /\ [][BusyNext]_vars
    /\ WF_vars(LaunchSettles)
    /\ WF_vars(SwapSettles)
    /\ WF_vars(InitializeWallet)
    /\ WF_vars(InitializeClient)
    /\ WF_vars(ConnectInitialized)
    /\ WF_vars(ConnectSettles)

(***************************************************************************)
(* Properties.                                                             *)
(***************************************************************************)
\* floor(amount * (10000 - bps) / 10000) for a non-negative bigint amount
FloorFormula(amt, bps) ==
    BigIntOf(1, BigDivMod(BigMul(amt.mag, FromInt(BpsDenominator - bps)),
                          FromInt(BpsDenominator)).q)

\* a completed executeSwap that reached the vendor's executeSwap
SwapExecuted ==
    /\ call.op = "executeSwap"
    /\ call.phase = "done"
    /\ Len(call.vendorCalls) = 2

SlippageReturned == call.op = "calculateSlippage" /\ call.phase = "done"

\* C1: for every simulated amountOut >= 0 and every maxSlippageBps in 0..10000,
\* executeSwap hands the vendor's executeSwap
\* minAmountOut = floor(amountOut * (10000 - maxSlippageBps) / 10000); with
\* maxSlippageBps = 0 that is amountOut and with 10000 it is 0.
C1_MinAmountOutIsFormula ==
    SwapExecuted =>
        call.vendorCalls[2].args.minAmountOut =
            ToDecimalString(FloorFormula(ParseBigInt(call.vendorCalls[1].ret.amountOut),
                                         call.args.maxSlippageBps))

\* C2: the minimum output is never negative and never above the quoted amount,
\* both in executeSwap and in calculateSlippage.
C2_MinAmountOutWithinQuote ==
    /\ SwapExecuted =>
          LET quoted == ParseBigInt(call.vendorCalls[1].ret.amountOut)
              minOut == ParseBigInt(call.vendorCalls[2].args.minAmountOut)
          IN  minOut.s = 1 /\ BigLeq(minOut.mag, quoted.mag)
    /\ SlippageReturned =>
          /\ call.outcome.value.s = 1
          /\ BigLeq(call.outcome.value.mag, call.args.amount.mag)

\* C3: calculateSlippage(amount, slippageBps) is exactly
\* floor(amount * (10000 - slippageBps) / 10000), the value of executeSwap's
\* integer division.
C3_SlippageIsFloorFormula ==
    SlippageReturned =>
        call.outcome.value = FloorFormula(call.args.amount, call.args.slippageBps)

\* C4: calculateSlippage(amount, 0) = amount and calculateSlippage(amount, 10000) = 0
\* for every amount >= 0, and calculateSlippage(1000, 100) = 990.
C4_SlippageEndpoints ==
    SlippageReturned =>
        /\ call.args.slippageBps = 0 => call.outcome.value = call.args.amount
        /\ call.args.slippageBps = BpsDenominator => call.outcome.value = Big(0)
        /\ (call.args.amount = Big(1000) /\ call.args.slippageBps = 100)
              => call.outcome.value = Big(990)

ThresholdInRange(pct) == 50 <= pct /\ pct <= 95

HasVendorCall(fn) == \E i \in 1..Len(call.vendorCalls) : call.vendorCalls[i].fn = fn

\* C5: with graduationThresholdPct outside 50..95 the derivation of the virtual
\* reserves fails, in calculateVirtualReserves and at the start of launchToken,
\* and launchToken makes no pool-creation call.
C5_OutOfRangeThresholdFails ==
    /\ (/\ call.op = "calculateVirtualReserves"
        /\ call.phase = "done"
        /\ ~ThresholdInRange(call.args.graduationThresholdPct))
          => call.outcome.kind = "throw"
    /\ (/\ call.op = "launchToken"
        /\ call.phase = "done"
        /\ ~ThresholdInRange(call.args.graduationThresholdPct))
          => /\ ~HasVendorCall("createSingleSidedPool")
             /\ \/ call.outcome.kind = "rejected"
                \/ ~call.outcome.value.success

\* C10: calculatePriceImpact signals a division-by-zero failure, which is no
\* number, whenever reserveIn = 0 or amountIn * reserveOut / reserveIn = 0.
\* (The function has no throw; NaN is counted here as its way to signal.)
C10_ZeroDivisionIsSignalled ==
    (/\ call.op = "calculatePriceImpact"
     /\ call.phase = "done"
     /\ \/ call.args.reserveIn = Big(0)
        \/ call.args.amountIn = Big(0)
        \/ call.args.reserveOut = Big(0))
        => \/ call.outcome.kind = "throw"
           \/ call.outcome.value.k = "nan"

\* the curve parameters the launch flow is meant to accept
ValidCurveInputs(fd) ==
    /\ BigLeq(FromInt(1), fd.initialSupply.mag) /\ fd.initialSupply.s = 1
    /\ fd.graduationThresholdPct >= 50 /\ fd.graduationThresholdPct <= 95
    /\ BigLeq(FromInt(1), fd.targetRaise.mag) /\ fd.targetRaise.s = 1

\* the vendor's reserves for the form data fd
PreviewOf(fd) ==
    VendorReserves(ReservesArgs(fd.initialSupply, fd.graduationThresholdPct, fd.targetRaise))

\* C6: whenever handleLaunch has called launchToken, the parameters it passed
\* have initialSupply >= 1, 50 <= graduationThresholdPct <= 95 and
\* targetRaise >= 1.
C6_LaunchOnlyWithValidInputs ==
    \A i \in 1..Len(launch) : ValidCurveInputs(launch[i].params)

\* C7: after handleInputChange has changed a curve field and computed a
\* preview, with valid values in the form, previewData is the vendor's
\* derivation for the values the form now holds.
C7_PreviewIsOfCurrentValues ==
    (/\ formEvent.handler = "handleInputChange"
     /\ formEvent.did = "computed"
     /\ ValidCurveInputs(formData))
        => previewData = PreviewOf(formData)

\* C8: after handleInputChange on a curve field whose preview computation
\* failed (the vendor threw, or the inputs were unusable and the derivation
\* was skipped), previewData is empty.
C8_FailedPreviewIsEmpty ==
    (/\ formEvent.handler = "handleInputChange"
     /\ formEvent.did \in {"threw", "skipped"})
        => previewData = Null

\* C9: once every getSwapQuote request of handleAmountChange has completed,
\* a quote left on display by handleAmountChange is the one its most recent
\* invocation set.
C9_LastCallWins ==
    (quoteRequests = {} /\ quoteFrom # 0) => quoteFrom = lastChange

\* a completed calculatePriceImpact with non-zero reserves and amountIn >= 1
PriceImpactReturned ==
    /\ call.op = "calculatePriceImpact"
    /\ call.phase = "done"
    /\ call.args.reserveIn # Big(0)
    /\ call.args.reserveOut # Big(0)
    /\ call.args.amountIn # Big(0)

\* C11: for non-zero reserves and amountIn >= 1, calculatePriceImpact returns
\* a non-negative number, equal to |expectedOut - amountOut| / expectedOut * 100
\* with expectedOut = amountIn * reserveOut / reserveIn, and it is 0 exactly
\* when amountOut * reserveIn = amountIn * reserveOut.
C11_PriceImpactIsFormula ==
    PriceImpactReturned =>
        LET a == call.args
            expectedOut == FDiv(FMul(Number(a.amountIn), Number(a.reserveOut)),
                                Number(a.reserveIn))
            v == call.outcome.value
        IN  /\ v.k = "fin" /\ v.s = 1
            /\ v = FMul(FDiv(FAbs(FSub(expectedOut, Number(a.amountOut))), expectedOut),
                        FInt(100))
            /\ IsZero(v) <=> (BigMul(a.amountOut.mag, a.reserveIn.mag)
                                = BigMul(a.amountIn.mag, a.reserveOut.mag))

ReservesReturned == call.op = "calculateVirtualReserves" /\ call.phase = "done"

\* C12: the result of LaunchpadClient.calculateVirtualReserves is determined by
\* its arguments and the vendor function alone, in every state of the
\* LaunchpadClient singleton: it is the vendor's value for these arguments, or
\* what the vendor threw, and the one vendor call made carries these arguments.
C12_ReservesDependOnArgumentsOnly ==
    ReservesReturned =>
        LET args == ReservesArgs(call.args.initialSupply, call.args.graduationThresholdPct,
                                 call.args.targetRaise)
        IN  /\ Len(call.vendorCalls) = 1
            /\ call.vendorCalls[1].args = args
            /\ \/ call.outcome = [kind |-> "return", value |-> VendorReserves(args)]
               \/ /\ call.outcome.kind = "throw"
                  /\ call.outcome.error \in PlainThrows
                  /\ call.vendorCalls[1].ret = Throws

\* the vendor's value is returned while the singleton holds no client
C12_Witness ==
    /\ ReservesReturned
    /\ call.outcome.kind = "return"
    /\ client = "null"
    /\ initPc = "wallet"

\* the method under way made a vendor call, and the last one it made threw
VendorCallFailed ==
    /\ call.phase = "done"
    /\ "vendorCalls" \in DOMAIN call
    /\ call.vendorCalls # <<>>
    /\ call.vendorCalls[Len(call.vendorCalls)].ret = Throws

IsFailure(settled) ==
    /\ settled.kind = "resolved"
    /\ DOMAIN settled.value = {"success", "error"}
    /\ settled.value.success = FALSE

\* C14: when a vendor call throws or rejects inside launchToken, executeSwap,
\* addLiquidity, createInvoice or initialize, the method resolves to
\* {success: false, error}; getSwapQuote, getPool and getLpPosition resolve to
\* null and listPools to an empty list of pools; nothing is thrown to the caller.
C14_VendorFailureIsCaught ==
    [][/\ VendorCallFailed' =>
            CASE call'.op \in {"launchToken", "executeSwap", "addLiquidity", "createInvoice"}
                   -> IsFailure(call'.outcome)
              [] call'.op \in {"getSwapQuote", "getPool", "getLpPosition"}
                   -> call'.outcome = Resolved(Null)
              [] call'.op = "listPools"
                   -> call'.outcome = Resolved([pools |-> <<>>])
              [] OTHER -> TRUE
       /\ (initPc = "wallet" /\ initPc' = "idle") => IsFailure(initResult')
       /\ (initPc = "client" /\ initPc' = "idle" /\ initResult' # Resolved([success |-> TRUE]))
              => IsFailure(initResult')]_vars

LaunchReservesThrew ==
    /\ call.op = "launchToken" /\ call.phase = "done"
    /\ call.vendorCalls # <<>>
    /\ call.vendorCalls[1].fn = "calculateVirtualReserves"
    /\ call.vendorCalls[1].ret = Throws

\* C15: when the vendor's virtual-reserve computation throws during launchToken,
\* launchToken resolves to {success: false, error} and createSingleSidedPool is
\* not called for that launch.
C15_NoPoolAfterFailedReserves ==
    LaunchReservesThrew =>
        /\ IsFailure(call.outcome)
        /\ ~HasVendorCall("createSingleSidedPool")

C15_Witness ==
    /\ LaunchReservesThrew
    /\ call.outcome = Resolved(Failure(<<"Network error">>))
    /\ Len(call.vendorCalls) = 1

\* str is the text of a decimal integer: digits, after "-" when negative
IsDecimalString(str) ==
    /\ str # <<>>
    /\ \A i \in 1..Len(str) :
          (\E d \in 1..10 : DigitChars[d] = str[i]) \/ (i = 1 /\ str[i] = "-")
    /\ str # <<"-">>

\* the arguments of one vendor call encode the three values of p
EncodesParams(args, p) ==
    /\ IsDecimalString(args.initialTokenSupply)
    /\ ParseBigInt(args.initialTokenSupply) = p.initialSupply
    /\ IsDecimalString(args.targetRaise)
    /\ ParseBigInt(args.targetRaise) = p.targetRaise
    /\ args.graduationThresholdPct = p.graduationThresholdPct

\* C16: every vendor calculateVirtualReserves call made by updatePreview and by
\* launchToken passes initialTokenSupply and targetRaise as decimal strings that
\* decode to the integers of the form data read (of the params passed), and
\* graduationThresholdPct as it is.
C16_ReservesArgsEncodeParams ==
    \A i \in 1..Len(formEvent.vendorCalls) :
        formEvent.vendorCalls[i].fn = "calculateVirtualReserves"
        => EncodesParams(formEvent.vendorCalls[i].args, formEvent.read)

C16_Witness ==
    /\ formEvent.handler = "handleLaunch"
    /\ formEvent.vendorCalls # <<>>
    /\ formEvent.vendorCalls[1].args.targetRaise[1] = "-"
    /\ previewData # Null

\* the methods that start with getClient()
ClientMethods ==
    {"launchToken", "getSwapQuote", "executeSwap", "getPool", "listPools",
     "getLpPosition", "addLiquidity"}

\* C17: getClient() returns a client only if some earlier initialize() has
\* returned {success: true}; while none has, getClient() throws 'Client not
\* initialized - call initialize() first' and the methods built on it make no
\* vendor call.
C17_ClientOnlyAfterSuccessfulInitialize ==
    ~initSucceeded =>
        /\ (call.op = "getClient" /\ call.phase = "done")
              => call.outcome = [kind |-> "throw", error |-> NotInitializedMessage]
        /\ (call.op \in ClientMethods /\ call.phase = "done")
              => /\ call.vendorCalls = <<>>
                 /\ call.outcome = Rejected(NotInitializedMessage)

\* executeSwap has run on an initialised client
SwapRan == call.op = "executeSwap" /\ call.phase = "done" /\ call.vendorCalls # <<>>

\* C18: executeSwap simulates first: the vendor's executeSwap is called only
\* after a simulateSwap that succeeded, with the same poolId, assets and amountIn
\* (those of params), and the minAmountOut sent is computed from that
\* simulation's amountOut and the tolerance, whatever params.minAmountOut is.
C18_SimulatesFirst ==
    SwapRan =>
        LET sim == call.vendorCalls[1]
        IN  /\ sim.fn = "simulateSwap"
            /\ sim.args.poolId = call.args.poolId
            /\ sim.args.assetInAddress = call.args.assetIn
            /\ sim.args.assetOutAddress = call.args.assetOut
            /\ ParseBigInt(sim.args.amountIn) = call.args.amountIn
            /\ Len(call.vendorCalls) <= 2
            /\ \A i \in 1..Len(call.vendorCalls) :
                  call.vendorCalls[i].fn = "executeSwap" =>
                      LET exec == call.vendorCalls[i]
                      IN  /\ i = 2
                          /\ sim.ret # Throws
                          /\ \A f \in DOMAIN sim.args : exec.args[f] = sim.args[f]
                          /\ exec.args.minAmountOut =
                                ToDecimalString(FloorFormula(
                                    ParseBigInt(sim.ret.amountOut),
                                    slippageTolerance(call.args.maxSlippageBps)))
            /\ sim.ret = Throws => Len(call.vendorCalls) = 1

C18_Witness ==
    /\ SwapExecuted
    /\ call.args.minAmountOut = Big(7)
    /\ ParseBigInt(call.vendorCalls[2].args.minAmountOut) # Big(7)
    /\ call.vendorCalls[1].ret.amountOut = ToDecimalString(Big(1000))

\* C19: in every state of the launch form, at the start, after any input
\* changes (the supply text empty, zero, negative or no number among them) and
\* after the reset that follows a launch, formData.initialSupply >= 1.
C19_SupplyAtLeastOne ==
    /\ formData.initialSupply.s = 1
    /\ BigLeq(FromInt(1), formData.initialSupply.mag)

C19_Witness ==
    /\ formData.initialSupply = Big(1)
    /\ formEvent.handler = "handleInputChange"
    /\ previewData # Null

\* the error the claim gives for a vendor failure with this message
ExpectedSwapError(message) ==
    IF Includes(message, "Insufficient balance")
    THEN <<"Not enough funds to execute swap">>
    ELSE IF Includes(message, "Slippage exceeded")
    THEN <<"Price moved too much during execution">>
    ELSE IF Includes(message, "Pool inactive")
    THEN <<"Pool is currently inactive">>
    ELSE message

\* C20: when a vendor call fails inside executeSwap the result is
\* {success: false, error} in every case, and the error is chosen by the first
\* case that matches the message thrown: 'Insufficient balance', 'Slippage
\* exceeded', 'Pool inactive', and otherwise the message itself.
C20_SwapErrorByFirstMatch ==
    (call.op = "executeSwap" /\ VendorCallFailed) =>
        /\ IsFailure(call.outcome)
        /\ call.thrown.isError
              => call.outcome.value.error = ExpectedSwapError(call.thrown.message)

\* pool.volume24h as a natural number, a missing one counting as 0
VolumeOf(pool) == IF pool.volume24h = Null THEN {} ELSE pool.volume24h.mag

\* the SINGLE_SIDED pools of the listing the last load got
ListedBondingCurvePools ==
    {dashboard.lastLoad.pools[i] : i \in 1..Len(dashboard.lastLoad.pools)}
        \cap {pool \in VendorPools : pool.curveType = "SINGLE_SIDED"}

\* C21: after a successful loadDashboardData, trendingPools holds at most 3 pools,
\* all SINGLE_SIDED, in non-increasing order of volume24h (a missing volume counting
\* as 0), and no SINGLE_SIDED pool left out has a larger volume24h than a listed one;
\* recentLaunches holds at most 2 SINGLE_SIDED pools in descending poolId order.
C21_TrendingAndRecent ==
    dashboard.lastLoad.went = "listed" =>
        LET trending == dashboard.trendingPools
            recent   == dashboard.recentLaunches
        IN  /\ Len(trending) <= 3
            /\ \A i \in 1..Len(trending) : trending[i] \in ListedBondingCurvePools
            /\ \A i, j \in 1..Len(trending) :
                  i < j => BigLeq(VolumeOf(trending[j]), VolumeOf(trending[i]))
            /\ \A pool \in ListedBondingCurvePools, i \in 1..Len(trending) :
                  (\A j \in 1..Len(trending) : trending[j] # pool)
                      => BigLeq(VolumeOf(pool), VolumeOf(trending[i]))
            /\ Len(recent) <= 2
            /\ \A i \in 1..Len(recent) : recent[i] \in ListedBondingCurvePools
            /\ \A i, j \in 1..Len(recent) :
                  i < j => localeCompare(recent[j].poolId, recent[i].poolId) < 0

\* C22: loadDashboardData always ends with isLoading = false; when listing the
\* pools failed (the vendor threw, or the client is not initialised) the dashboard
\* then shows empty data: the four stats are 0 and trendingPools, recentLaunches and
\* userPositions are empty, whatever an earlier load had put there.
C22_FailedLoadShowsEmpty ==
    /\ dashboard.lastLoad.went # "none" => ~dashboard.isLoading
    /\ dashboard.lastLoad.went \in {"vendor error", "rejected"} =>
          /\ dashboard.stats = EmptyStats
          /\ dashboard.trendingPools = <<>>
          /\ dashboard.recentLaunches = <<>>
          /\ dashboard.userPositions = <<>>

C22_Witness ==
    /\ dashboard.lastLoad.went = "vendor error"
    /\ dashboard.loads = 0
    /\ dashboard.stats = EmptyStats

\* C26: in every state of useWallet, isConnected = false implies address = null and
\* balance = null.
C26_DisconnectedShowsNothing ==
    ~useWallet.isConnected => useWallet.address = Null /\ useWallet.balance = Null

\* a connect() ends in this step
ConnectEnds == useWallet.connect # "idle" /\ useWallet'.connect = "idle"

\* the mount effect ran in this step
MountStep ==
    /\ useWallet.connect = "idle"
    /\ \E getAddress \in GetAddressRuns : useWallet' = MountedUseWallet(wallet, getAddress)

\* C27: when a connect() ends by reporting a failure, isConnected, address and
\* balance are what they would be without that call; isConnected becomes true only
\* in a connect() that ends with the success notification, or in the mount-time
\* check.
C27_FailedConnectChangesNothing ==
    [][/\ (ConnectEnds /\ useWallet'.report \in {"error", "rejected"})
            => Visible(useWallet') = useWallet.apart
       /\ (~useWallet.isConnected /\ useWallet'.isConnected)
            => MountStep \/ useWallet.connect = "initialize"]_vars

\* C28: disconnect() changes only the hook's own state, to isConnected = false,
\* address = null and balance = null; the singleton's client and wallet stay as they
\* are, so getWallet() and getClient() still succeed after it and a newly mounted
\* useWallet reports isConnected = true again.
C28_DisconnectLeavesClient ==
    [][(useWallet.isConnected /\ ~useWallet'.isConnected) =>
          /\ Visible(useWallet') = Disconnected
          /\ useWallet'.isLoading = useWallet.isLoading
          /\ useWallet'.connect = useWallet.connect
          /\ useWallet'.refreshes = useWallet.refreshes
          /\ UNCHANGED <<clientVars, dashboard, call, formVars, tradeVars>>
          /\ wallet' # "null"
          /\ client' # "null"
          /\ \A getAddress \in GetAddressRuns :
                MountedUseWallet(wallet', getAddress).isConnected]_vars

C28_Witness ==
    /\ useWallet.report = "disconnected"
    /\ ~useWallet.isConnected
    /\ wallet # "null"
    /\ useWallet.connect = "idle"

\* C25: with each trigger button enabled only while its busy flag is false, a launch
\* form never has two launchToken calls in flight and a trading panel never has two
\* executeSwap calls in flight, however the clicks and the settlements interleave.
C25_OneCallInFlight ==
    /\ Len(launch) <= 1
    /\ Len(swap) <= 1
    /\ launch # NoCall => LaunchDisabled
    /\ swap # NoCall => SwapDisabled

C25_Witness ==
    /\ Len(launch) = 1
    /\ isLaunching
    /\ formEvent.did = "launchToken"

\* no initialize() has been called
NeverInitialized == initPc = "idle" /\ initResult = NoResult

\* a method called before any initialize() has rejected, with no vendor call
RejectsUninitialized ==
    (NeverInitialized /\ call.phase = "done") =>
        /\ call.op \in ClientMethods =>
              /\ call.outcome = Rejected(NotInitializedMessage)
              /\ call.vendorCalls = <<>>
        /\ call.op = "createInvoice" =>
              /\ call.outcome = Rejected(WalletNotInitializedMessage)
              /\ call.vendorCalls = <<>>

\* a handler whose call was made before any initialize() runs on in its catch block
CatchesUninitialized ==
    NeverInitialized =>
        /\ Len(launch') < Len(launch) =>
              /\ formEvent'.did = "toast.error"
              /\ formEvent'.vendorCalls = <<>>
              /\ ~isLaunching'
              /\ formData' = formData
        /\ Len(swap') < Len(swap) =>
              /\ ~isSwapping'
              /\ UNCHANGED <<amount, quote>>
        /\ (quoteRequests' # quoteRequests /\ quoteRequests' \subseteq quoteRequests) =>
              quote' = Null
        /\ dashboard'.loads < dashboard.loads =>
              /\ dashboard'.lastLoad.went = "rejected"
              /\ ~dashboard'.isLoading
              /\ dashboard'.trendingPools = <<>>

\* C23: before any initialize() call each of launchToken, getSwapQuote, executeSwap,
\* getPool, listPools, getLpPosition and addLiquidity rejects with 'Client not
\* initialized - call initialize() first' (createInvoice with 'Wallet not
\* initialized - call initialize() first') rather than returning a result, and makes
\* no vendor call; handleLaunch, handleSwap, handleAmountChange and
\* loadDashboardData catch the rejection.
C23_UninitializedRejects == []RejectsUninitialized /\ [][CatchesUninitialized]_vars

C23_Witness ==
    /\ NeverInitialized
    /\ call.phase = "done"
    /\ call.op = "executeSwap"
    /\ call.outcome = Rejected(NotInitializedMessage)

\* a busy flag is set only by a handler that went on to its awaited call
BusyOnlyWhileAwaiting ==
    /\ isLaunching => launch # NoCall
    /\ isSwapping => swap # NoCall
    /\ useWallet.isLoading => useWallet.connect # "idle"

\* C24: a busy flag is always released: once handleLaunch has set isLaunching (or
\* handleSwap isSwapping, or connect isLoading), the flag is false again later on,
\* whether the awaited call succeeds, returns a failure or throws; a handler that
\* returns at its validation does not set the flag: a flag is true only while the
\* call is awaited.
C24_BusyFlagReleased ==
    /\ isLaunching ~> ~isLaunching
    /\ isSwapping ~> ~isSwapping
    /\ useWallet.isLoading ~> ~useWallet.isLoading
    /\ []BusyOnlyWhileAwaiting

C24_Witness ==
    /\ useWallet.report = "rejected"
    /\ ~useWallet.isLoading
    /\ useWallet.connect = "idle"

=============================================================================
